---- MODULE Spec2Model ----
(***************************************************************************)
(* Model of the authentication front end (LoginForm and SignupForm in      *)
(* frontend/src/app/(auth)/login/page.tsx) and of the middleware           *)
(* registration in backend/bootstrap/app.php.                              *)
(*                                                                         *)
(* Strings the code inspects character by character (name, email,          *)
(* password) are sequences of one-character strings.  Each form is a React *)
(* component: its useState cells are the variables below, an event handler *)
(* runs to completion (up to its first await) as one action, and the part  *)
(* of handleSubmit after the await runs as a microtask when the promise of *)
(* clientFetch.post has settled.                                           *)
(***************************************************************************)
EXTENDS Integers, Sequences, FiniteSets, TLC

VARIABLES
    page,        \* which component is mounted: "login" or "signup"
    formData,    \* useState formData
    formErrors,  \* useState formErrors (Undefined = key absent or undefined)
    isLoading,   \* useState isLoading
    error,       \* useState error (banner), NULL or a message
    requests,    \* calls of clientFetch.post whose continuation has not run
    routerPath,  \* the path the router was last told to show
    route,       \* backend: middleware aliases listed on the matched route
    token,       \* backend: the token of the request being handled
    role,        \* backend: role of the token's user
    pipeline,    \* backend: middleware classes still to run, in order
    ran,         \* backend: middleware classes that have run, in order
    outcome      \* backend: "idle", "running", "rejected" or "passed"

formVars == <<page, formData, formErrors, isLoading, error, requests, routerPath>>
mwVars == <<route, token, role, pipeline, ran, outcome>>
vars == <<page, formData, formErrors, isLoading, error, requests, routerPath,
          route, token, role, pipeline, ran, outcome>>

----------------------------------------------------------------------------
(* Bounds of the model *)

\* how many clientFetch.post calls may be outstanding before the model stops
\* accepting more (the code has no such limit)
MaxInFlight == 2

\* longest middleware list of a route
MaxRouteLen == 3

----------------------------------------------------------------------------
(* Values *)

NULL == "null"
Undefined == "undefined"

Rep(c, n) == [i \in 1..n |-> c]

MinPassword == 8
MinName == 2

EmailMessage == "Please enter a valid email address"
PasswordMessage == "Password must be at least 8 characters"
NameMessage == "Name must be at least 2 characters"
MismatchMessage == "Passwords do not match"
RoleMessage == "Invalid enum value"
LoginFailedMessage == "Invalid email or password. Please try again."
SignupFailedMessage == "Registration failed. Please try again."

\* what the user may type into each input
Names == { <<>>, <<"a">>, <<"a", "b">> }
Emails == { <<>>,
            <<"a", ".", "a", "a">>,
            <<"a", "@", "a">>,
            <<".", "a", "@", "a", ".", "a", "a">>,
            <<"a", "@", "a", ".", "a", "a">> }
Passwords == { <<>>, Rep("x", MinPassword - 1), Rep("x", MinPassword) }

Roles == {"client", "employee"}

----------------------------------------------------------------------------
\* zod: z.string().email().  Its pattern, case-insensitive, reads: the text
\* does not start with a dot and has no two dots in a row; the local part is
\* any run of letters, digits and _ ' + - . that ends in a letter, a digit or
\* one of _ + - ; then one @ ; then one or more labels, each a letter or digit
\* followed by letters, digits or hyphens and closed by a dot; then two or
\* more letters.

Letters == {"a", "b"}
Digits == {"1"}
AlNum == Letters \cup Digits
LocalChars == AlNum \cup {"_", "'", "+", "-", "."}
LocalLast == AlNum \cup {"_", "+", "-"}
LabelChars == AlNum \cup {"-"}

Positions(s, c) == { i \in 1..Len(s) : s[i] = c }

HasDoubleDot(s) == \E i \in 1..(Len(s) - 1) : s[i] = "." /\ s[i + 1] = "."

LocalOk(l) ==
    /\ Len(l) >= 1
    /\ \A i \in 1..Len(l) : l[i] \in LocalChars
    /\ l[Len(l)] \in LocalLast

\* a label of the domain: [A-Z0-9][A-Z0-9\-]*
LabelOk(l) ==
    /\ Len(l) >= 1
    /\ l[1] \in AlNum
    /\ \A i \in 1..Len(l) : l[i] \in LabelChars

\* the last part of the domain: [A-Z]{2,}
TldOk(t) ==
    /\ Len(t) >= 2
    /\ \A i \in 1..Len(t) : t[i] \in Letters

\* ([A-Z0-9][A-Z0-9\-]*\.)+[A-Z]{2,} : the labels are the stretches between
\* the dots, the last stretch is the top-level part
DomainOk(d) ==
    LET dots == Positions(d, ".")
        last == IF dots = {} THEN 0
                ELSE CHOOSE i \in dots : \A j \in dots : j <= i
        starts == {1} \cup { i + 1 : i \in dots }
        stretchEnd(b) == IF \E j \in dots : j >= b
                         THEN (CHOOSE j \in dots : j >= b /\ \A k \in dots : k >= b => j <= k) - 1
                         ELSE Len(d)
    IN  /\ dots # {}
        /\ TldOk(SubSeq(d, last + 1, Len(d)))
        /\ \A b \in starts : b <= last => LabelOk(SubSeq(d, b, stretchEnd(b)))

IsEmail(s) ==
    LET ats == Positions(s, "@")
        at == CHOOSE i \in ats : TRUE
    IN  /\ Cardinality(ats) = 1
        /\ s[1] # "."
        /\ ~HasDoubleDot(s)
        /\ LocalOk(SubSeq(s, 1, at - 1))
        /\ DomainOk(SubSeq(s, at + 1, Len(s)))

----------------------------------------------------------------------------
(* zod: the issues of loginSchema.parse / signupSchema.parse, in the order *)
(* zod reports them (keys in declaration order, the refinement last)       *)

Issue(p, m) == [path |-> p, message |-> m]

\* variant: an empty email is let through
EmailIssues_EmptyAllowed(v) ==
    IF v = <<>> \/ IsEmail(v) THEN <<>> ELSE << Issue("email", EmailMessage) >>

EmailIssues(v) == IF IsEmail(v) THEN <<>> ELSE << Issue("email", EmailMessage) >>
PasswordIssues(v) ==
    IF Len(v) >= MinPassword THEN <<>> ELSE << Issue("password", PasswordMessage) >>
NameIssues(v) == IF Len(v) >= MinName THEN <<>> ELSE << Issue("name", NameMessage) >>
\* z.enum: a value outside the enum is an invalid (aborting) result
RoleIssues(v) == IF v \in {"client", "employee"} THEN <<>> ELSE << Issue("role", RoleMessage) >>

loginSchema(d) == EmailIssues(d.email) \o PasswordIssues(d.password)

signupObject(d) ==
    NameIssues(d.name) \o EmailIssues(d.email) \o PasswordIssues(d.password)
        \o RoleIssues(d.role)

\* variant: the refinement is skipped as soon as any field has an issue
signupRefine_SkippedOnIssues(d) ==
    IF signupObject(d) # <<>> THEN <<>>
    ELSE IF d.password = d.confirmPassword THEN <<>>
    ELSE << Issue("confirmPassword", MismatchMessage) >>

\* .refine runs unless the object parse aborted; failed string checks only
\* mark the result dirty, an invalid enum value aborts
signupRefine(d) ==
    IF RoleIssues(d.role) # <<>> THEN <<>>
    ELSE IF d.password = d.confirmPassword THEN <<>>
    ELSE << Issue("confirmPassword", MismatchMessage) >>

signupSchema(d) == signupObject(d) \o signupRefine(d)

Schema(p, d) == IF p = "login" THEN loginSchema(d) ELSE signupSchema(d)

----------------------------------------------------------------------------
(* The components *)

LoginFields == {"email", "password"}
SignupFields == {"name", "email", "password", "confirmPassword", "role"}
Fields(p) == IF p = "login" THEN LoginFields ELSE SignupFields

\* the <Input name=...> elements of each form
Inputs(p) == IF p = "login" THEN {"email", "password"}
             ELSE {"name", "email", "password", "confirmPassword"}

Values(name) ==
    CASE name = "name" -> Names
      [] name = "email" -> Emails
      [] OTHER -> Passwords

InitialFormData(p) ==
    IF p = "login" THEN [email |-> <<>>, password |-> <<>>]
    ELSE [name |-> <<>>, email |-> <<>>, password |-> <<>>,
          confirmPassword |-> <<>>, role |-> "client"]

NoErrors(p) == [f \in Fields(p) |-> Undefined]

\* err.errors.forEach((error) => { errors[error.path[0]] = error.message })
RECURSIVE CollectErrors(_, _)
CollectErrors(issues, errors) ==
    IF issues = <<>> THEN errors
    ELSE CollectErrors(Tail(issues),
                       [errors EXCEPT ![Head(issues).path] = Head(issues).message])

\* variant: the catch branch returns true as well
validateForm_AlwaysTrue(p, d) ==
    LET issues == Schema(p, d)
    IN  [ok |-> TRUE, errors |-> CollectErrors(issues, NoErrors(p))]

\* validateForm: the returned boolean and the formErrors it sets
validateForm(p, d) ==
    LET issues == Schema(p, d)
    IN  IF issues = <<>>
        THEN [ok |-> TRUE, errors |-> NoErrors(p)]
        ELSE [ok |-> FALSE, errors |-> CollectErrors(issues, NoErrors(p))]

\* variant: the two identifiers exchanged
RoleId_Swapped(r) == IF r = "client" THEN 2 ELSE 3

RoleId(r) == IF r = "client" THEN 3 ELSE 2

\* the url and body handleSubmit passes to clientFetch.post
PostRequest(p, d) ==
    IF p = "login"
    THEN [url |-> "/auth/login",
          body |-> [email |-> d.email, password |-> d.password]]
    ELSE [url |-> "/auth/signup",
          body |-> [name |-> d.name, email |-> d.email, password |-> d.password,
                    password_confirmation |-> d.confirmPassword,
                    role_id |-> RoleId(d.role)]]

\* variant: the signup form shows the login form's message
FailureMessage_LoginOnly(p) == LoginFailedMessage

FailureMessage(p) == IF p = "login" THEN LoginFailedMessage ELSE SignupFailedMessage

\* variant: the submit button without its disabled attribute
SubmitDisabled_Never == FALSE

\* <Button type="submit" disabled={isLoading}>: a disabled submit button takes
\* no click and blocks implicit submission (Enter in an input)
SubmitDisabled == isLoading

\* a settled promise whose continuation has not run yet: the continuation is
\* a microtask, it runs before the browser dispatches the next event
MicrotaskPending == \E i \in 1..Len(requests) : requests[i].status # "pending"

InitForm ==
    /\ page \in {"login", "signup"}
    /\ formData = InitialFormData(page)
    /\ formErrors = NoErrors(page)
    /\ isLoading = FALSE
    /\ error = NULL
    /\ requests = <<>>
    /\ routerPath = IF page = "login" THEN "/login" ELSE "/signup"

InitMw ==
    /\ route = <<>>
    /\ token = "none"
    /\ role = "client"
    /\ pipeline = <<>>
    /\ ran = <<>>
    /\ outcome = "idle"

Init == InitForm /\ InitMw

handleChange(name, value) ==
    /\ ~MicrotaskPending
    /\ name \in Inputs(page)
    /\ formData' = [formData EXCEPT ![name] = value]
    /\ formErrors' = IF formErrors[name] # Undefined
                     THEN [formErrors EXCEPT ![name] = Undefined]
                     ELSE formErrors
    /\ UNCHANGED <<page, isLoading, error, requests, routerPath>>
    /\ UNCHANGED mwVars

\* variant: the role is stored without the test of the value
handleRoleChange_NoGuard(value) ==
    /\ ~MicrotaskPending
    /\ page = "signup"
    /\ formData' = [formData EXCEPT !.role = value]
    /\ formErrors' = IF formErrors.role # Undefined
                     THEN [formErrors EXCEPT !.role = Undefined]
                     ELSE formErrors
    /\ UNCHANGED <<page, isLoading, error, requests, routerPath>>
    /\ UNCHANGED mwVars

handleRoleChange(value) ==
    /\ ~MicrotaskPending
    /\ page = "signup"
    /\ IF value = "client" \/ value = "employee"
       THEN /\ formData' = [formData EXCEPT !.role = value]
            /\ formErrors' = IF formErrors.role # Undefined
                             THEN [formErrors EXCEPT !.role = Undefined]
                             ELSE formErrors
       ELSE UNCHANGED <<formData, formErrors>>
    /\ UNCHANGED <<page, isLoading, error, requests, routerPath>>
    /\ UNCHANGED mwVars

\* a submit event on the form: handleSubmit up to its await
handleSubmit ==
    /\ ~MicrotaskPending
    /\ ~SubmitDisabled
    /\ Len(requests) < MaxInFlight
    /\ LET v == validateForm(page, formData)
       IN  /\ formErrors' = v.errors
           /\ IF ~v.ok
              THEN UNCHANGED <<isLoading, error, requests, routerPath>>
              ELSE /\ isLoading' = TRUE
                   /\ error' = NULL
                   /\ requests' = Append(requests,
                                         [req |-> PostRequest(page, formData),
                                          status |-> "pending"])
                   /\ UNCHANGED routerPath
    /\ UNCHANGED <<page, formData>>
    /\ UNCHANGED mwVars

\* the promise of clientFetch.post settles
Settle(i, result) ==
    /\ ~MicrotaskPending
    /\ i \in 1..Len(requests)
    /\ requests[i].status = "pending"
    /\ requests' = [requests EXCEPT ![i].status = result]
    /\ UNCHANGED <<page, formData, formErrors, isLoading, error, routerPath>>
    /\ UNCHANGED mwVars

RemoveAt(s, i) == SubSeq(s, 1, i - 1) \o SubSeq(s, i + 1, Len(s))

\* variant: the continuation also resets the fields
Continuation_ResetsForm(i) ==
    /\ i \in 1..Len(requests)
    /\ requests[i].status # "pending"
    /\ IF requests[i].status = "resolved"
       THEN /\ routerPath' = "/"
            /\ UNCHANGED error
       ELSE /\ error' = FailureMessage(page)
            /\ UNCHANGED routerPath
    /\ isLoading' = FALSE
    /\ requests' = RemoveAt(requests, i)
    /\ formData' = InitialFormData(page)
    /\ UNCHANGED <<page, formErrors>>
    /\ UNCHANGED mwVars

\* variant: setIsLoading(false) at the end of the try block, not in finally
Continuation_NoFinally(i) ==
    /\ i \in 1..Len(requests)
    /\ requests[i].status # "pending"
    /\ IF requests[i].status = "resolved"
       THEN /\ routerPath' = "/"
            /\ isLoading' = FALSE
            /\ UNCHANGED error
       ELSE /\ error' = FailureMessage(page)
            /\ UNCHANGED <<routerPath, isLoading>>
    /\ requests' = RemoveAt(requests, i)
    /\ UNCHANGED <<page, formData, formErrors>>
    /\ UNCHANGED mwVars

\* handleSubmit after the await: try / catch / finally
Continuation(i) ==
    /\ i \in 1..Len(requests)
    /\ requests[i].status # "pending"
    /\ IF requests[i].status = "resolved"
       THEN /\ routerPath' = "/"
            /\ UNCHANGED error
       ELSE /\ error' = FailureMessage(page)
            /\ UNCHANGED routerPath
    /\ isLoading' = FALSE
    /\ requests' = RemoveAt(requests, i)
    /\ UNCHANGED <<page, formData, formErrors>>
    /\ UNCHANGED mwVars

Next ==
    \/ \E name \in SignupFields \ {"role"} : \E value \in Values(name) :
           handleChange(name, value)
    \/ \E value \in Roles \cup {"admin"} : handleRoleChange(value)
    \/ handleSubmit
    \/ \E i \in 1..MaxInFlight : \E result \in {"resolved", "rejected"} : Settle(i, result)
    \/ \E i \in 1..MaxInFlight : Continuation(i)

Spec == Init /\ [][Next]_vars

\* the continuation of a settled promise is a microtask and always runs
FairSpec == Spec /\ WF_vars(\E i \in 1..MaxInFlight : Continuation(i))

----------------------------------------------------------------------------
(* backend/bootstrap/app.php: middleware aliases and priority *)

Aliases == {"jwt.auth", "jwt.guest", "admin", "employee", "client"}

\* variant: jwt.guest registered with the JwtAuth class
alias_GuestIsAuth ==
    [a \in Aliases |->
        CASE a = "jwt.auth" -> "JwtAuth"
          [] a = "jwt.guest" -> "JwtAuth"
          [] a = "admin" -> "isAdmin"
          [] a = "employee" -> "isEmployee"
          [] a = "client" -> "isClient"]

\* $middleware->alias([...])
alias ==
    [a \in Aliases |->
        CASE a = "jwt.auth" -> "JwtAuth"
          [] a = "jwt.guest" -> "JwtGuest"
          [] a = "admin" -> "isAdmin"
          [] a = "employee" -> "isEmployee"
          [] a = "client" -> "isClient"]

\* variant: the role checks listed ahead of the token checks
priority_RolesFirst == << "isAdmin", "isEmployee", "isClient", "JwtAuth", "JwtGuest" >>

\* $middleware->priority([...])
priority == << "JwtAuth", "JwtGuest", "isAdmin", "isEmployee", "isClient" >>

\* position of a class in the priority list, 0 when it is not listed
priorityMapIndex(m) ==
    IF \E i \in 1..Len(priority) : priority[i] = m
    THEN CHOOSE i \in 1..Len(priority) : priority[i] = m
    ELSE 0

\* the entry at `from` moved to stand before the entry at `to` (to < from)
moveMiddleware(mws, from, to) ==
    SubSeq(mws, 1, to - 1) \o << mws[from] >> \o SubSeq(mws, to, from - 1)
        \o SubSeq(mws, from + 1, Len(mws))

RECURSIVE uniqueMiddleware(_)
uniqueMiddleware(mws) ==
    IF mws = <<>> THEN <<>>
    ELSE LET init == uniqueMiddleware(SubSeq(mws, 1, Len(mws) - 1))
             m == mws[Len(mws)]
         IN  IF \E i \in 1..Len(init) : init[i] = m THEN init ELSE Append(init, m)

\* the framework's sort by priority: walk the list; a listed class that comes
\* after a listed class of lower priority is moved before it, and the walk
\* starts again
RECURSIVE sortScan(_, _, _, _)
sortScan(mws, index, lastIndex, lastPriorityIndex) ==
    IF index > Len(mws) THEN uniqueMiddleware(mws)
    ELSE LET priorityIndex == priorityMapIndex(mws[index])
         IN  IF priorityIndex = 0
             THEN sortScan(mws, index + 1, lastIndex, lastPriorityIndex)
             ELSE IF lastPriorityIndex # 0 /\ priorityIndex < lastPriorityIndex
             THEN sortScan(moveMiddleware(mws, index, lastIndex), 1, 0, 0)
             ELSE sortScan(mws, index + 1, index, priorityIndex)

sortMiddleware(mws) == sortScan(mws, 1, 0, 0)

\* the classes a route's middleware list resolves to, in the order they run
resolveMiddleware(r) == sortMiddleware([i \in 1..Len(r) |-> alias[r[i]]])

\* whether a middleware lets the request through
handle(m, tok, rl) ==
    CASE m = "JwtAuth" -> tok = "valid"
      [] m = "JwtGuest" -> tok # "valid"
      [] m = "isAdmin" -> tok = "valid" /\ rl = "admin"
      [] m = "isEmployee" -> tok = "valid" /\ rl = "employee"
      [] m = "isClient" -> tok = "valid" /\ rl = "client"

Tokens == {"none", "invalid", "valid"}
UserRoles == {"admin", "employee", "client"}

\* middleware lists without repetition, up to MaxRouteLen entries
Routes ==
    UNION { { r \in [1..n -> Aliases] : \A i, j \in 1..n : i # j => r[i] # r[j] }
            : n \in 0..MaxRouteLen }

\* a request arrives at a route
Dispatch(r, tok, rl) ==
    /\ outcome = "idle"
    /\ route' = r
    /\ token' = tok
    /\ role' = rl
    /\ pipeline' = resolveMiddleware(r)
    /\ ran' = <<>>
    /\ outcome' = "running"
    /\ UNCHANGED formVars

\* the next middleware of the pipeline runs
RunMiddleware ==
    /\ outcome = "running"
    /\ pipeline # <<>>
    /\ ran' = Append(ran, Head(pipeline))
    /\ IF handle(Head(pipeline), token, role)
       THEN /\ pipeline' = Tail(pipeline)
            /\ UNCHANGED outcome
       ELSE /\ outcome' = "rejected"
            /\ UNCHANGED pipeline
    /\ UNCHANGED <<route, token, role>>
    /\ UNCHANGED formVars

\* every middleware let the request through: the route's handler runs
ReachHandler ==
    /\ outcome = "running"
    /\ pipeline = <<>>
    /\ outcome' = "passed"
    /\ UNCHANGED <<route, token, role, pipeline, ran>>
    /\ UNCHANGED formVars

\* the response is sent
Respond ==
    /\ outcome \in {"rejected", "passed"}
    /\ outcome' = "idle"
    /\ route' = <<>>
    /\ token' = "none"
    /\ role' = "client"
    /\ pipeline' = <<>>
    /\ ran' = <<>>
    /\ UNCHANGED formVars

NextMw ==
    \/ \E r \in Routes : \E tok \in Tokens : \E rl \in UserRoles : Dispatch(r, tok, rl)
    \/ RunMiddleware
    \/ ReachHandler
    \/ Respond

SpecMw == Init /\ [][NextMw]_vars

----------------------------------------------------------------------------
(* Properties *)

Range(f) == { f[i] : i \in DOMAIN f }

\* the whole schema, written out: well-formed email, password of 8 or more
\* characters, and on signup a name of 2 or more characters and the two
\* passwords equal
SchemaPasses(p, d) ==
    /\ IsEmail(d.email)
    /\ Len(d.password) >= 8
    /\ p = "signup" => (Len(d.name) >= 2 /\ d.password = d.confirmPassword)

\* a step in which clientFetch.post is called
PostSent == Len(requests') > Len(requests)

\* a step in which the continuation of a settled request runs
Completes == Len(requests') < Len(requests)

\* C1: in both forms a POST is sent only from a form state that passes the
\* whole schema; a submit event in any state failing a check sends no request.
C1_PostOnlyWhenValid ==
    [][PostSent =>
         /\ SchemaPasses(page, formData)
         /\ requests'[Len(requests')].req.url =
                (IF page = "login" THEN "/auth/login" ELSE "/auth/signup")]_vars

\* a signup request is outstanding
C1_Witness ==
    /\ page = "signup"
    /\ Len(requests) = 1
    /\ requests[1].status = "pending"
    /\ requests[1].req.url = "/auth/signup"

\* C2: each form has at most one request in flight at any moment, under every
\* interleaving of submit events and request completions.
C2_SingleInFlight ==
    /\ Cardinality({ i \in 1..Len(requests) : requests[i].status = "pending" }) <= 1
    /\ Len(requests) <= 1
    /\ requests # <<>> => isLoading

\* a request is in flight and the submit button is disabled
C2_Witness ==
    /\ isLoading
    /\ SubmitDisabled
    /\ Len(requests) = 1
    /\ requests[1].status = "pending"
    /\ formErrors = NoErrors(page)

\* C3: whenever the signup form's password and confirmPassword differ,
\* validateForm returns false and records "Passwords do not match" under
\* confirmPassword, whatever the other fields hold.
C3_MismatchReported ==
    (page = "signup" /\ formData.password # formData.confirmPassword) =>
        LET v == validateForm(page, formData)
        IN  /\ v.ok = FALSE
            /\ v.errors.confirmPassword = "Passwords do not match"

\* a submit has recorded the mismatch while name, email and password are
\* invalid as well
C3_Witness ==
    /\ page = "signup"
    /\ formData.password # formData.confirmPassword
    /\ Len(formData.name) < 2
    /\ ~IsEmail(formData.email)
    /\ Len(formData.password) < 8
    /\ formErrors.confirmPassword = "Passwords do not match"
    /\ formErrors.name # Undefined
    /\ requests = <<>>

\* C4: whenever the login form's email contains no "@", validateForm returns
\* false and records the email-format error under email, whatever the
\* password is.
C4_NoAtReported ==
    (page = "login" /\ "@" \notin Range(formData.email)) =>
        LET v == validateForm(page, formData)
        IN  /\ v.ok = FALSE
            /\ v.errors.email = "Please enter a valid email address"

\* a submit has recorded the email error for a non-empty email without "@"
\* next to a valid password
C4_Witness ==
    /\ page = "login"
    /\ formData.email # <<>>
    /\ "@" \notin Range(formData.email)
    /\ Len(formData.password) >= 8
    /\ formErrors.email = "Please enter a valid email address"
    /\ formErrors.password = Undefined

\* C5: every signup request carries the role_id of the role selected when it
\* is submitted: 3 for "client", 2 for "employee".
C5_RoleIdOfRole ==
    [][(PostSent /\ page = "signup") =>
         LET body == requests'[Len(requests')].req.body
         IN  /\ formData.role = "client" => body.role_id = 3
             /\ formData.role = "employee" => body.role_id = 2
             /\ formData.role \in {"client", "employee"}]_vars

\* an employee signup is outstanding
C5_Witness ==
    /\ page = "signup"
    /\ Len(requests) = 1
    /\ requests[1].req.body.role_id = 2
    /\ formData.role = "employee"

\* C6: when the request of a valid submission settles, success navigates to
\* "/" and leaves the banner error null; failure does not navigate and sets
\* the banner error to the form's fixed message.
C6_OneOutcome ==
    [][Completes =>
         \A i \in 1..Len(requests) :
            (requests[i].status # "pending" /\ Len(requests) = 1) =>
               /\ requests[i].status = "resolved" =>
                     (routerPath' = "/" /\ error' = NULL)
               /\ requests[i].status = "rejected" =>
                     /\ routerPath' = routerPath
                     /\ error' = (IF page = "login"
                                  THEN "Invalid email or password. Please try again."
                                  ELSE "Registration failed. Please try again.")]_vars

\* a signup request has failed: the banner shows and nothing navigated
C6_Witness ==
    /\ page = "signup"
    /\ error = "Registration failed. Please try again."
    /\ routerPath = "/signup"
    /\ requests = <<>>
    /\ ~isLoading

\* C7: jwt.auth and jwt.guest are mutually exclusive: a route guarded by
\* jwt.auth passes no request without a valid token, a route guarded by
\* jwt.guest passes no request with a valid token, and no request passes
\* both guards.
C7_GuardsExclusive ==
    outcome = "passed" =>
        /\ "jwt.auth" \in Range(route) => token = "valid"
        /\ "jwt.guest" \in Range(route) => token # "valid"
        /\ ~("jwt.auth" \in Range(route) /\ "jwt.guest" \in Range(route))

\* a request with a valid token was turned away by jwt.guest
C7_Witness ==
    /\ outcome = "rejected"
    /\ route = << "jwt.guest" >>
    /\ token = "valid"
    /\ ran = << "JwtGuest" >>

C8_Rank(m) ==
    CASE m = "JwtAuth" -> 1
      [] m = "JwtGuest" -> 2
      [] m = "isAdmin" -> 3
      [] m = "isEmployee" -> 4
      [] m = "isClient" -> 5

\* C8: the middleware of a route run in the order JwtAuth, JwtGuest, isAdmin,
\* isEmployee, isClient whatever order the route lists them in; a role check
\* never runs before JwtAuth on the same route.
C8_PriorityOrder ==
    /\ \A i, j \in 1..Len(ran) : i < j => C8_Rank(ran[i]) < C8_Rank(ran[j])
    /\ \A i, j \in 1..Len(pipeline) : i < j => C8_Rank(pipeline[i]) < C8_Rank(pipeline[j])
    /\ \A j \in 1..Len(ran) :
          (ran[j] \in {"isAdmin", "isEmployee", "isClient"} /\ "jwt.auth" \in Range(route))
              => \E i \in 1..(j - 1) : ran[i] = "JwtAuth"

\* a route that lists the role check first ran JwtAuth before it
C8_Witness ==
    /\ route = << "client", "admin", "jwt.auth" >>
    /\ ran = << "JwtAuth", "isAdmin" >>
    /\ outcome = "rejected"

\* C9 as stated: once a submission has completed the form no longer holds the
\* values entered.
C9_DiscardedAfterSubmission ==
    [][Completes => formData' = InitialFormData(page)]_vars

\* C9, amended: completing a submission, on success or on failure, leaves
\* formData and formErrors exactly as they were; handleSubmit discards nothing.
C9_KeptAfterSubmission ==
    [][Completes => (formData' = formData /\ formErrors' = formErrors)]_vars

\* a login submission has failed and the form still holds what was entered
C9_Witness ==
    /\ page = "login"
    /\ error # NULL
    /\ ~isLoading
    /\ requests = <<>>
    /\ IsEmail(formData.email)
    /\ Len(formData.password) >= 8

\* C10: once the request has settled isLoading returns to false, on success
\* and on failure alike; and isLoading is set to true only by a submission
\* that passes validation.
C10_LoadingEnds ==
    /\ (\E i \in 1..Len(requests) : requests[i].status = "resolved") ~> ~isLoading
    /\ (\E i \in 1..Len(requests) : requests[i].status = "rejected") ~> ~isLoading
    /\ [][(~isLoading /\ isLoading') => (SchemaPasses(page, formData) /\ PostSent)]_vars
    /\ [][(Completes /\ Len(requests) = 1) => ~isLoading']_vars

\* a submission has succeeded and the button is enabled again
C10_Witness ==
    /\ routerPath = "/"
    /\ error = NULL
    /\ ~isLoading
    /\ ~SubmitDisabled
    /\ requests = <<>>

\* C11: the signup form's role starts as "client" and is "client" or
\* "employee" in every reachable state, handleRoleChange storing no other
\* value; so every signup request carries role_id 2 or 3, never an admin role.
C11_RoleClientOrEmployee ==
    /\ page = "signup" => formData.role = "client"
    /\ [](page = "signup" =>
            /\ formData.role \in {"client", "employee"}
            /\ formErrors.role = Undefined
            /\ \A i \in 1..Len(requests) :
                  /\ requests[i].req.url = "/auth/signup"
                  /\ requests[i].req.body.role_id \in {2, 3})

\* an employee signup is outstanding and the role was switched back to client
C11_Witness ==
    /\ page = "signup"
    /\ formData.role = "client"
    /\ Len(requests) = 1
    /\ requests[1].status = "pending"
    /\ requests[1].req.body.role_id = 2

====
